---- MODULE Spec2Model ----
(***************************************************************************)
(* Model of the label-structure classifier                                 *)
(* (compfigsep/utils/figure/label/labels_structure.py) and of the          *)
(* distributed evaluator (compfigsep/utils/detectron_utils/evaluator.py),  *)
(* of the exports (compfigsep/data/export.py) and of the figure generators *)
(* and their registration.                                                 *)
(*                                                                         *)
(* A label (a Python str) is a sequence of one-character strings.          *)
(***************************************************************************)
EXTENDS Integers, Sequences, FiniteSets, TLC

VARIABLES
    \* ---- LabelStructure.from_labels_list ----
    labels_list,        \* the argument
    ipc,                \* position in from_labels_list
    idx,                \* number of labels the for loop has consumed
    similarity_list,    \* the "histogram" dict (<< >> before it is built)
    warnings,           \* number of logging.warning calls
    result,             \* the returned LabelStructure (NoResult before)
    \* ---- LabelStructure.get_core_label_list ----
    labels_type,        \* self.labels_type
    num_labels,         \* self.num_labels
    cpc,                \* position in get_core_label_list
    output_list,        \* the returned list
    \* ---- PanelSegAbstractEvaluator, one instance per worker (rank) ----
    self_predictions,   \* self._predictions of each worker
    evaluation_function,\* self._evaluation_function ("None" or "fn")
    export,             \* self.export
    epc,                \* position of each worker in its evaluator calls
    round,              \* number of evaluate() calls each worker has made
    gather_data,        \* per round, the data each rank handed to comm.gather
    all_predictions,    \* the local all_predictions of each worker
    predictions,        \* the local predictions (merged dict) of each worker
    retval,             \* what the last evaluate() of each worker returned
    calls,              \* per worker: merges, evaluation calls, export calls
    \* ---- export_figures_to_json and the file system it works on ----
    fs_dirs,            \* the directories that exist
    fs_files,           \* the files that exist, with their content
    xcall,              \* the last call of export_figures_to_json
    \* ---- export_figures_to_detectron_dict ----
    task,               \* the argument task
    det_figures,        \* the figures figure_generator() yields
    dpc,                \* position in export_figures_to_detectron_dict
    generator_calls,    \* number of figure_generator() calls
    requested,          \* number of figures taken from the generator
    dataset_dicts,      \* the list of records built so far
    \* ---- GlobalCsvFigureGenerator.__call__ ----
    csv_rows,           \* the rows of the annotation file
    gpc,                \* position of the generator
    row_i,              \* number of rows read
    image_path,         \* the local image_path
    figure,             \* the local figure: an index into figure_objs, 0 for None
    figure_objs,        \* the Figure objects created, in creation order
    subfigures,         \* the local subfigures: an index into lists
    lists,              \* the list objects created, with their elements
    yielded,            \* the figures yielded, with their list as it was then
    image_counter,      \* the local image_counter
    logged,             \* number of logging.error calls
    \* ---- a registered IphotodrawXmlFigureGenerator and its traversals ----
    image_loads,        \* per image path: whether load_image() succeeds
    fg_state,           \* the generator object kept in the metadata
    fg_next,            \* the position of that generator in self.image_paths
    fg_logged,          \* number of logging.error calls
    tpc,                \* whether the evaluator is iterating over the provider
    traversal,          \* the figures the running traversal has got
    passes,             \* the figures each finished traversal has got
    \* ---- the panel-splitting matching of one figure ----
    gt_panels,          \* the ground-truth panel boxes of the figure
    detections,         \* the predicted panels: box and confidence score
    mpc,                \* position in the matching
    processed,          \* the indices of the predictions already taken
    pairs,              \* the matches made: <<prediction, ground truth>>
    counts,             \* true positives, false positives, false negatives
    \* ---- _train_val_splitter, one generator per value of is_train ----
    num_figures,        \* number of figures of the ImageCLEF training set
    spc,                \* position of each of the two generators
    split_index,        \* the local index of each generator
    split_yielded       \* the figures each generator has yielded

labelVars == <<labels_list, ipc, idx, similarity_list, warnings, result>>
coreVars == <<labels_type, num_labels, cpc, output_list>>
evalVars == <<self_predictions, evaluation_function, export, epc, round,
              gather_data, all_predictions, predictions, retval, calls>>
exportVars == <<fs_dirs, fs_files, xcall>>
detVars == <<task, det_figures, dpc, generator_calls, requested, dataset_dicts>>
csvVars == <<csv_rows, gpc, row_i, image_path, figure, figure_objs, subfigures,
             lists, yielded, image_counter, logged>>
providerVars == <<image_loads, fg_state, fg_next, fg_logged, tpc, traversal,
                  passes>>
matchVars == <<gt_panels, detections, mpc, processed, pairs, counts>>
splitVars == <<num_figures, spc, split_index, split_yielded>>
dataVars == <<exportVars, detVars, csvVars, providerVars, matchVars, splitVars>>
vars == <<labelVars, coreVars, evalVars, dataVars>>

-----------------------------------------------------------------------------
(* Bounds of the model. *)

MaxLabels == 3
MaxCount == 28
NumWorkers == 2
MaxRounds == 2

-----------------------------------------------------------------------------
(* LabelStructureEnum, in declaration order (the iteration order of the    *)
(* Enum, hence the insertion order of the similarity_list dict).           *)

LabelStructureEnum ==
    <<"NONE", "NUMERICAL", "LATIN_UC", "LATIN_LC", "ROMAN_UC", "ROMAN_LC", "OTHER">>

Schemes == {LabelStructureEnum[i] : i \in 1..Len(LabelStructureEnum)}

NoResult == [labels_type |-> "unset", num_labels |-> 0 - 1]

LabelStructure(type, n) == [labels_type |-> type, num_labels |-> n]

\* No call of from_labels_list / get_core_label_list is under way.
InferIdle ==
    /\ labels_list = << >>
    /\ ipc = "idle"
    /\ idx = 0
    /\ similarity_list = << >>
    /\ warnings = 0
    /\ result = NoResult

CoreIdle ==
    /\ labels_type = "NONE"
    /\ num_labels = 0
    /\ cpc = "idle"
    /\ output_list = << >>

\* No export_figures_to_json call, on an empty file system.
ExportIdle ==
    /\ fs_dirs = {}
    /\ fs_files = << >>
    /\ xcall = [caller |-> "none"]

\* No export_figures_to_detectron_dict call.
DetectronIdle ==
    /\ task = "panel_splitting"
    /\ det_figures = << >>
    /\ dpc = "idle"
    /\ generator_calls = 0
    /\ requested = 0
    /\ dataset_dicts = << >>

\* No GlobalCsvFigureGenerator call.
CsvIdle ==
    /\ csv_rows = << >>
    /\ gpc = "idle"
    /\ row_i = 0
    /\ image_path = << >>
    /\ figure = 0
    /\ figure_objs = << >>
    /\ subfigures = 0
    /\ lists = << >>
    /\ yielded = << >>
    /\ image_counter = 0
    /\ logged = 0

\* No data set registered.
ProviderIdle ==
    /\ image_loads = << >>
    /\ fg_state = "none"
    /\ fg_next = 0
    /\ fg_logged = 0
    /\ tpc = "idle"
    /\ traversal = << >>
    /\ passes = << >>

\* No figure is being matched.
MatchIdle ==
    /\ gt_panels = << >>
    /\ detections = << >>
    /\ mpc = "idle"
    /\ processed = {}
    /\ pairs = {}
    /\ counts = [tp |-> 0, fp |-> 0, fn |-> 0]

\* _train_val_splitter has not been called.
SplitIdle ==
    /\ num_figures = 0
    /\ spc = [is_train \in BOOLEAN |-> "none"]
    /\ split_index = [is_train \in BOOLEAN |-> 0]
    /\ split_yielded = [is_train \in BOOLEAN |-> << >>]

DataIdle ==
    /\ ExportIdle /\ DetectronIdle /\ CsvIdle /\ ProviderIdle
    /\ MatchIdle /\ SplitIdle

-----------------------------------------------------------------------------
(* Characters and the helpers of label/utils.py.                           *)

Digit == <<"0", "1", "2", "3", "4", "5", "6", "7", "8", "9">>
Digits == {Digit[i] : i \in 1..Len(Digit)}

\* The ASCII characters of code points 65 (A) to 126 (~); "bslash" and
\* "grave" stand for the characters of code points 92 and 96.
AsciiFrom65 ==
    <<"A", "B", "C", "D", "E", "F", "G", "H", "I", "J", "K", "L", "M",
      "N", "O", "P", "Q", "R", "S", "T", "U", "V", "W", "X", "Y", "Z",
      "[", "bslash", "]", "^", "_", "grave",
      "a", "b", "c", "d", "e", "f", "g", "h", "i", "j", "k", "l", "m",
      "n", "o", "p", "q", "r", "s", "t", "u", "v", "w", "x", "y", "z",
      "{", "|", "}", "~">>

chr(n) == AsciiFrom65[n - 64]

UpperLetters == {chr(n) : n \in 65..90}
LowerLetters == {chr(n) : n \in 97..122}

is_lower_char(char) == Len(char) = 1 /\ char[1] \in LowerLetters
is_upper_char(char) == Len(char) = 1 /\ char[1] \in UpperLetters

UC_ROMAN ==
    << <<"I">>, <<"I", "I">>, <<"I", "I", "I">>, <<"I", "V">>, <<"V">>,
       <<"V", "I">>, <<"V", "I", "I">>, <<"V", "I", "I", "I">>,
       <<"I", "X">>, <<"X">>, <<"X", "I">>, <<"X", "I", "I">> >>

lower(c) ==
    IF c \in UpperLetters
    THEN chr(32 + CHOOSE n \in 65..90 : chr(n) = c)
    ELSE c

LC_ROMAN == [i \in 1..Len(UC_ROMAN) |->
                [j \in 1..Len(UC_ROMAN[i]) |-> lower(UC_ROMAN[i][j])]]

\* The key sets of the dicts UC_ROMAN_TO_INT and LC_ROMAN_TO_INT.
UC_ROMAN_TO_INT == {UC_ROMAN[i] : i \in 1..Len(UC_ROMAN)}
LC_ROMAN_TO_INT == {LC_ROMAN[i] : i \in 1..Len(LC_ROMAN)}

-----------------------------------------------------------------------------
(* int(label) of a str: surrounding whitespace is stripped, one sign is    *)
(* allowed, then decimal digits with single underscores between digits.    *)
(* Anything else raises ValueError.                                        *)

RECURSIVE lstrip(_)
lstrip(s) == IF Len(s) > 0 /\ s[1] = " " THEN lstrip(Tail(s)) ELSE s

RECURSIVE rstrip(_)
rstrip(s) ==
    IF Len(s) > 0 /\ s[Len(s)] = " " THEN rstrip(SubSeq(s, 1, Len(s) - 1)) ELSE s

unsigned(s) == IF Len(s) > 0 /\ s[1] \in {"+", "-"} THEN Tail(s) ELSE s

int(label) ==
    LET u == unsigned(rstrip(lstrip(label)))
    IN  IF /\ Len(u) > 0
           /\ u[1] \in Digits
           /\ u[Len(u)] \in Digits
           /\ \A i \in 1..Len(u) : u[i] \in Digits \cup {"_"}
           /\ \A i \in 1..(Len(u) - 1) : ~(u[i] = "_" /\ u[i + 1] = "_")
        THEN "ok"
        ELSE "ValueError"

\* Mutant of Caught: the except clause names another exception.
Caught_TypeError == {"TypeError"}

\* The exceptions the except clause around int(label) catches.
Caught == {"ValueError"}

-----------------------------------------------------------------------------
(* The body of the for loop of from_labels_list: the bucket the label      *)
(* votes for, or "raise" when an exception escapes.                        *)

\* Mutant of Vote: the roman tables are looked up before the
\* single-character tests.
Vote_RomanFirst(label) ==
    IF label \in LC_ROMAN_TO_INT THEN "ROMAN_LC"
    ELSE IF label \in UC_ROMAN_TO_INT THEN "ROMAN_UC"
    ELSE IF Len(label) = 1 /\ is_lower_char(label) THEN "LATIN_LC"
    ELSE IF Len(label) = 1 /\ is_upper_char(label) THEN "LATIN_UC"
    ELSE IF int(label) = "ok" THEN "NUMERICAL"
    ELSE IF int(label) \notin Caught THEN "raise"
    ELSE "OTHER"

Vote(label) ==
    IF Len(label) = 1 /\ is_lower_char(label) THEN "LATIN_LC"
    ELSE IF Len(label) = 1 /\ is_upper_char(label) THEN "LATIN_UC"
    ELSE IF int(label) = "ok" THEN "NUMERICAL"
    ELSE IF int(label) \notin Caught THEN "raise"
    ELSE IF label \in LC_ROMAN_TO_INT THEN "ROMAN_LC"
    ELSE IF label \in UC_ROMAN_TO_INT THEN "ROMAN_UC"
    ELSE "OTHER"

\* Mutant of AllPlaceholders: the comparison is with [_], not [_] * len.
AllPlaceholders_Single(labels) == labels = << <<"_">> >>

\* labels_list == [_] * len(labels_list): every label is the placeholder.
AllPlaceholders(labels) == \A i \in 1..Len(labels) : labels[i] = <<"_">>

\* Mutant of MaxPos: the last of the items with the highest value.
MaxPos_Last(sim) ==
    LET last == CHOOSE i \in 1..Len(LabelStructureEnum) :
                    /\ \A j \in 1..Len(LabelStructureEnum) :
                          sim[LabelStructureEnum[j]] <= sim[LabelStructureEnum[i]]
                    /\ \A j \in (i + 1)..Len(LabelStructureEnum) :
                          sim[LabelStructureEnum[j]] < sim[LabelStructureEnum[i]]
    IN  LabelStructureEnum[last]

\* max(similarity_list.items(), key=operator.itemgetter(1))[0]: the first
\* item, in the dict's iteration order, whose value no item exceeds.
MaxPos(sim) ==
    LET first == CHOOSE i \in 1..Len(LabelStructureEnum) :
                    /\ \A j \in 1..Len(LabelStructureEnum) :
                          sim[LabelStructureEnum[j]] <= sim[LabelStructureEnum[i]]
                    /\ \A j \in 1..(i - 1) :
                          sim[LabelStructureEnum[j]] < sim[LabelStructureEnum[i]]
    IN  LabelStructureEnum[first]

-----------------------------------------------------------------------------
(* PanelSegAbstractEvaluator on NumWorkers processes.                      *)
(*                                                                         *)
(* A dict is a function whose domain is its key set.  The entry a worker   *)
(* stores under an image id is tagged with the worker's rank, which is     *)
(* all evaluate() can tell about it.                                       *)

Ranks == 0..(NumWorkers - 1)
Rounds == 1..MaxRounds
ImageIds == {"img1", "img2"}

task_name == "panel_splitting"

EmptyDict == << >>

Dicts == UNION {[K -> Ranks] : K \in SUBSET ImageIds}

\* d[key] = value
SetItem(d, key, value) ==
    [k \in (DOMAIN d) \cup {key} |-> IF k = key THEN value ELSE d[k]]

NoCall == [kind |-> "nocall"]
None == [kind |-> "None"]

NoCalls == [merge |-> 0, evaluation |-> 0, export |-> 0]

\* The evaluator of every worker right after __init__ (lines 81-96).
EvaluatorConstructed ==
    /\ self_predictions = [w \in Ranks |-> EmptyDict]
    /\ epc = [w \in Ranks |-> "idle"]
    /\ round = [w \in Ranks |-> 0]
    /\ gather_data = [r \in Rounds |-> [w \in Ranks |-> EmptyDict]]
    /\ all_predictions = [w \in Ranks |-> << >>]
    /\ predictions = [w \in Ranks |-> EmptyDict]
    /\ retval = [w \in Ranks |-> NoCall]
    /\ calls = [w \in Ranks |-> NoCalls]

EvalIdle ==
    /\ EvaluatorConstructed
    /\ evaluation_function = "None"
    /\ export = FALSE

\* comm.is_main_process(): the process of rank 0, the dst of the gather.
is_main_process_Always(w) == TRUE

is_main_process(w) == w = 0

\* Line 153: every worker that calls evaluate() calls comm.gather, before
\* it looks at its rank.
CallsGather_MainOnly(w) == is_main_process(w)

CallsGather(w) == TRUE

\* comm.gather(data, dst=0) returns once every rank has handed in its data
\* of this round: on dst the list of the data in rank order, elsewhere [].
GatherComplete(r) == \A v \in Ranks : round[v] >= r

GatherResult(w, r) ==
    IF w = 0 THEN [i \in 1..NumWorkers |-> gather_data[r][i - 1]] ELSE << >>

\* Lines 159-160 for one rank's dict: predictions[clsid] = lines.
MergeRank_KeepFirst(acc, per_rank) ==
    [k \in (DOMAIN acc) \cup (DOMAIN per_rank) |->
        IF k \in DOMAIN acc THEN acc[k] ELSE per_rank[k]]

MergeRank(acc, per_rank) ==
    [k \in (DOMAIN acc) \cup (DOMAIN per_rank) |->
        IF k \in DOMAIN per_rank THEN per_rank[k] ELSE acc[k]]

\* Lines 158-160: the loop over all_predictions.
RECURSIVE MergeFrom(_, _, _)
MergeFrom(all, i, acc) ==
    IF i > Len(all) THEN acc ELSE MergeFrom(all, i + 1, MergeRank(acc, all[i]))

\* Line 157: predictions = defaultdict(dict), a new dict in every call.
\* predictions[w] keeps what the previous call merged until the next call
\* binds the name again.
NewPredictions_Kept(w) == predictions[w]

NewPredictions(w) == EmptyDict

Merge(w) == MergeFrom(all_predictions[w], 1, NewPredictions(w))

\* Lines 164-166: the metrics of the merged predictions, None without an
\* evaluation function (the test of line 164).
MetricsDict_Always(merged) == [kind |-> "metrics", of |-> merged]

MetricsDict(merged) ==
    IF evaluation_function # "None"
    THEN [kind |-> "metrics", of |-> merged]
    ELSE None

\* Line 169: if self.export, after and outside the test of line 164.
ExportInvoked_OnlyWithMetrics == export /\ evaluation_function # "None"

ExportInvoked == export

\* evaluate() never assigns self._predictions (lines 140-177).
PredictionsAfterEvaluate_Cleared(w) == EmptyDict

PredictionsAfterEvaluate(w) == self_predictions[w]

InitEval ==
    /\ EvaluatorConstructed
    /\ evaluation_function \in {"None", "fn"}
    /\ export \in BOOLEAN
    /\ InferIdle
    /\ CoreIdle
    /\ DataIdle

\* Between two calls a worker is "idle" (constructed, or after process()),
\* "reset" (after reset()) or "returned" (after evaluate()).
Callable(w) == epc[w] \in {"idle", "reset", "returned"}

\* Line 104: self._predictions = {}.
PredictionsAfterReset_Kept(w) == self_predictions[w]

PredictionsAfterReset(w) == EmptyDict

\* reset(), lines 99-104.
Reset(w) ==
    /\ Callable(w)
    /\ self_predictions' = [self_predictions EXCEPT ![w] = PredictionsAfterReset(w)]
    /\ epc' = [epc EXCEPT ![w] = "reset"]
    /\ UNCHANGED <<evaluation_function, export, round, gather_data,
                   all_predictions, predictions, retval, calls>>
    /\ UNCHANGED <<labelVars, coreVars, dataVars>>

\* process() of a task's evaluator: the predictions of one image are stored
\* under its image id.
Process(w, image_id) ==
    /\ Callable(w)
    /\ self_predictions' =
          [self_predictions EXCEPT ![w] = SetItem(@, image_id, w)]
    /\ epc' = [epc EXCEPT ![w] = "idle"]
    /\ UNCHANGED <<evaluation_function, export, round, gather_data,
                   all_predictions, predictions, retval, calls>>
    /\ UNCHANGED <<labelVars, coreVars, dataVars>>

\* evaluate(), line 153: the worker hands self._predictions to the gather.
EvaluateGather(w) ==
    /\ Callable(w)
    /\ round[w] < MaxRounds
    /\ round' = [round EXCEPT ![w] = @ + 1]
    /\ IF CallsGather(w)
       THEN /\ gather_data' =
                  [gather_data EXCEPT ![round[w] + 1][w] = self_predictions[w]]
            /\ epc' = [epc EXCEPT ![w] = "gather"]
            /\ UNCHANGED all_predictions
       ELSE /\ epc' = [epc EXCEPT ![w] = "gathered"]
            /\ all_predictions' = [all_predictions EXCEPT ![w] = << >>]
            /\ UNCHANGED gather_data
    /\ UNCHANGED <<self_predictions, evaluation_function, export,
                   predictions, retval, calls>>
    /\ UNCHANGED <<labelVars, coreVars, dataVars>>

\* evaluate(), line 153: comm.gather returns.
GatherReturn(w) ==
    /\ epc[w] = "gather"
    /\ GatherComplete(round[w])
    /\ all_predictions' = [all_predictions EXCEPT ![w] = GatherResult(w, round[w])]
    /\ gather_data' =
          IF w = 0
          THEN [gather_data EXCEPT ![round[w]] = [v \in Ranks |-> EmptyDict]]
          ELSE gather_data
    /\ epc' = [epc EXCEPT ![w] = "gathered"]
    /\ UNCHANGED <<self_predictions, evaluation_function, export, round,
                   predictions, retval, calls>>
    /\ UNCHANGED <<labelVars, coreVars, dataVars>>

\* evaluate(), lines 154-155: a worker that is not the main process returns.
EvaluateReturnNone(w) ==
    /\ epc[w] = "gathered"
    /\ ~is_main_process(w)
    /\ retval' = [retval EXCEPT ![w] = None]
    /\ all_predictions' = [all_predictions EXCEPT ![w] = << >>]
    /\ self_predictions' =
          [self_predictions EXCEPT ![w] = PredictionsAfterEvaluate(w)]
    /\ epc' = [epc EXCEPT ![w] = "returned"]
    /\ UNCHANGED <<evaluation_function, export, round, gather_data,
                   predictions, calls>>
    /\ UNCHANGED <<labelVars, coreVars, dataVars>>

\* evaluate(), lines 157-160: the main process merges the gathered dicts.
EvaluateMerge(w) ==
    /\ epc[w] = "gathered"
    /\ is_main_process(w)
    /\ predictions' = [predictions EXCEPT ![w] = Merge(w)]
    /\ calls' = [calls EXCEPT ![w].merge = @ + 1]
    /\ epc' = [epc EXCEPT ![w] = "merged"]
    /\ UNCHANGED <<self_predictions, evaluation_function, export, round,
                   gather_data, all_predictions, retval>>
    /\ UNCHANGED <<labelVars, coreVars, dataVars>>

\* evaluate(), lines 161-177: del all_predictions, metrics, export, return.
EvaluateFinish(w) ==
    /\ epc[w] = "merged"
    /\ calls' = [calls EXCEPT
                    ![w].evaluation =
                        IF evaluation_function # "None" THEN @ + 1 ELSE @,
                    ![w].export = IF ExportInvoked THEN @ + 1 ELSE @]
    /\ retval' = [retval EXCEPT
                    ![w] = [kind |-> "dict", key |-> task_name,
                            value |-> MetricsDict(predictions[w])]]
    /\ all_predictions' = [all_predictions EXCEPT ![w] = << >>]
    /\ self_predictions' =
          [self_predictions EXCEPT ![w] = PredictionsAfterEvaluate(w)]
    /\ epc' = [epc EXCEPT ![w] = "returned"]
    /\ UNCHANGED <<evaluation_function, export, round, gather_data,
                   predictions>>
    /\ UNCHANGED <<labelVars, coreVars, dataVars>>

Next ==
    \/ \E w \in Ranks : Reset(w)
    \/ \E w \in Ranks, image_id \in ImageIds : Process(w, image_id)
    \/ \E w \in Ranks : EvaluateGather(w)
    \/ \E w \in Ranks : GatherReturn(w)
    \/ \E w \in Ranks : EvaluateReturnNone(w)
    \/ \E w \in Ranks : EvaluateMerge(w)
    \/ \E w \in Ranks : EvaluateFinish(w)

Init == InitEval

Spec == Init /\ [][Next]_vars

-----------------------------------------------------------------------------
(* The labels the model feeds to from_labels_list.                         *)

Tokens ==
    { <<"_">>, <<"a">>, <<"i">>, <<"A">>, <<"I">>, <<"1">>, <<"2">>, <<"1", "2">>,
      <<"-", "3">>, <<"i", "i">>, <<"i", "i", "i">>, <<"I", "I">>,
      <<"x">>, <<"v">>, <<"a", "b">>, <<"?">> }

LabelLists == UNION {[1..n -> Tokens] : n \in 0..MaxLabels}

InitInfer ==
    /\ labels_list \in LabelLists
    /\ ipc = "start"
    /\ idx = 0
    /\ similarity_list = << >>
    /\ warnings = 0
    /\ result = NoResult
    /\ CoreIdle
    /\ EvalIdle
    /\ DataIdle

\* Lines 104-111: the placeholder special case, else the empty histogram.
InferStart ==
    /\ ipc = "start"
    /\ IF AllPlaceholders(labels_list)
       THEN /\ result' = LabelStructure("NONE", Len(labels_list))
            /\ ipc' = "done"
            /\ UNCHANGED similarity_list
       ELSE /\ similarity_list' = [s \in Schemes |-> 0]
            /\ ipc' = "loop"
            /\ UNCHANGED result
    /\ UNCHANGED <<labels_list, idx, warnings, coreVars, evalVars, dataVars>>

\* Lines 113-151: one iteration of the for loop.
InferVote ==
    /\ ipc = "loop"
    /\ idx < Len(labels_list)
    /\ LET label == labels_list[idx + 1]
           bucket == Vote(label)
       IN  IF bucket = "raise"
           THEN /\ ipc' = "raised"
                /\ UNCHANGED <<idx, similarity_list, warnings>>
           ELSE /\ similarity_list' = [similarity_list EXCEPT ![bucket] = @ + 1]
                /\ warnings' = IF bucket = "OTHER" THEN warnings + 1 ELSE warnings
                /\ idx' = idx + 1
                /\ UNCHANGED ipc
    /\ UNCHANGED <<labels_list, result, coreVars, evalVars, dataVars>>

\* Lines 153-158: the vote is over, the structure is returned.
InferReturn ==
    /\ ipc = "loop"
    /\ idx = Len(labels_list)
    /\ result' = LabelStructure(MaxPos(similarity_list), Len(labels_list))
    /\ ipc' = "done"
    /\ UNCHANGED <<labels_list, idx, similarity_list, warnings, coreVars, evalVars, dataVars>>

NextInfer == InferStart \/ InferVote \/ InferReturn

SpecInfer == InitInfer /\ [][NextInfer]_vars

-----------------------------------------------------------------------------
(* LabelStructure.get_core_label_list.                                     *)

\* str(i) of a non-negative int: its decimal digits, most significant first.
RECURSIVE str(_)
str(i) == IF i < 10 THEN <<Digit[i + 1]>> ELSE str(i \div 10) \o <<Digit[(i % 10) + 1]>>

\* range(n)
range(n) == [k \in 1..n |-> k - 1]

\* lst[:n] for n >= 0
SliceTo(lst, n) == SubSeq(lst, 1, IF n < Len(lst) THEN n ELSE Len(lst))

\* Mutant of get_core_label_list: the numerical labels start at 1, the
\* latin ones at the second letter, the roman ones at the second entry.
get_core_label_list_OneBased(type, n) ==
    IF type = "None" THEN << >>
    ELSE IF type = "NUMERICAL" THEN [k \in 1..n |-> str(range(n)[k] + 1)]
    ELSE IF type = "LATIN_UC" THEN [k \in 1..n |-> <<chr(66 + range(n)[k])>>]
    ELSE IF type = "LATIN_LC" THEN [k \in 1..n |-> <<chr(98 + range(n)[k])>>]
    ELSE IF type = "ROMAN_UC" THEN SliceTo(Tail(UC_ROMAN), n)
    ELSE IF type = "ROMAN_LC" THEN SliceTo(Tail(LC_ROMAN), n)
    ELSE [k \in 1..n |-> <<"_">>]

get_core_label_list(type, n) ==
    IF type = "None" THEN << >>
    ELSE IF type = "NUMERICAL" THEN [k \in 1..n |-> str(range(n)[k])]
    ELSE IF type = "LATIN_UC" THEN [k \in 1..n |-> <<chr(65 + range(n)[k])>>]
    ELSE IF type = "LATIN_LC" THEN [k \in 1..n |-> <<chr(97 + range(n)[k])>>]
    ELSE IF type = "ROMAN_UC" THEN SliceTo(UC_ROMAN, n)
    ELSE IF type = "ROMAN_LC" THEN SliceTo(LC_ROMAN, n)
    ELSE [k \in 1..n |-> <<"_">>]

InitCore ==
    /\ labels_type \in Schemes
    /\ num_labels \in 0..MaxCount
    /\ cpc = "start"
    /\ output_list = << >>
    /\ InferIdle
    /\ EvalIdle
    /\ DataIdle

\* Lines 161-192: the whole method.
GetCoreLabelList ==
    /\ cpc = "start"
    /\ output_list' = get_core_label_list(labels_type, num_labels)
    /\ cpc' = "done"
    /\ UNCHANGED <<labels_type, num_labels, labelVars, evalVars, dataVars>>

NextCore == GetCoreLabelList

SpecCore == InitCore /\ [][NextCore]_vars

-----------------------------------------------------------------------------
(* The round trip: the list get_core_label_list returns is given to        *)
(* from_labels_list.                                                       *)

\* LabelStructure.from_labels_list(structure.get_core_label_list())
RoundTripCall ==
    /\ cpc = "done"
    /\ ipc = "idle"
    /\ labels_list' = output_list
    /\ ipc' = "start"
    /\ UNCHANGED <<idx, similarity_list, warnings, result, coreVars, evalVars, dataVars>>

NextRoundTrip ==
    GetCoreLabelList \/ RoundTripCall \/ InferStart \/ InferVote \/ InferReturn

SpecRoundTrip == InitCore /\ [][NextRoundTrip]_vars

-----------------------------------------------------------------------------
(* export_figures_to_json (compfigsep/data/export.py) on a file system.    *)
(*                                                                         *)
(* A path is a record: abs tells whether it starts at the root, parts are  *)
(* its components.  The relative path without components is the str "".   *)

MaxFiles == 1

Path(abs, parts) == [abs |-> abs, parts |-> parts]

\* os.path.dirname
dirname(p) ==
    Path(p.abs, IF p.parts = << >> THEN << >> ELSE SubSeq(p.parts, 1, Len(p.parts) - 1))

\* os.path.join of two paths: an absolute second path replaces the first.
join(a, b) == IF b.abs THEN b ELSE Path(a.abs, a.parts \o b.parts)

\* os.path.isdir: the root is a directory, "" is not.
isdir_Always(dirs, p) == TRUE

isdir(dirs, p) == p \in dirs \/ (p.abs /\ p.parts = << >>)

\* os.path.isfile
isfile_Never(files, p) == FALSE

isfile(files, p) == p \in DOMAIN files

\* The directory a path with more than one component lies in has to exist.
ParentMissing(dirs, p) == Len(p.parts) > 1 /\ ~isdir(dirs, dirname(p))

\* The exception os.mkdir(p) raises, "none" when it creates the directory.
mkdir_raises(dirs, files, p) ==
    IF p.parts = << >> \/ ParentMissing(dirs, p) THEN "FileNotFoundError"
    ELSE IF p \in DOMAIN files THEN "FileExistsError"
    ELSE "none"

\* The exception open(p, 'w') raises, "none" when it opens the file.
open_raises(dirs, p) ==
    IF isdir(dirs, p) THEN "IsADirectoryError"
    ELSE IF ParentMissing(dirs, p) THEN "FileNotFoundError"
    ELSE "none"

\* Lines 40-41 and 123.
PROJECT_DIR == Path(TRUE, <<"project">>)

DefaultDirectory == join(PROJECT_DIR, Path(FALSE, <<"output">>))

\* Lines 133-135: the file name made of the current date and time.
StampedName == Path(FALSE, <<"compfigsep_experiment_now.json">>)

\* Lines 111-127: json_output_directory_.
JsonOutputDirectory(json_output_filename, json_output_directory) ==
    IF json_output_directory = None
    THEN IF json_output_filename # None
         THEN dirname(json_output_filename)
         ELSE DefaultDirectory
    ELSE json_output_directory

\* Lines 133-138: json_output_path.
JsonOutputPath(json_output_filename, json_output_directory) ==
    join(JsonOutputDirectory(json_output_filename, json_output_directory),
         IF json_output_filename = None THEN StampedName ELSE json_output_filename)

\* json.dump of the dict built at lines 145-150 into the opened file.
WriteFile(files, p, figures) ==
    [q \in (DOMAIN files) \cup {p} |-> IF q = p THEN figures ELSE files[q]]

ExportOutcome(outcome, exception, dirs, files, traversals, warned) ==
    [outcome |-> outcome, exception |-> exception, dirs |-> dirs,
     files |-> files, traversals |-> traversals, warned |-> warned]

\* export_figures_to_json, lines 99-155, on the file system <<fs_dirs,
\* fs_files>>: how it ends, the file system it leaves, how many times it
\* called figure_generator() and whether it logged the warning.
export_figures_to_json(figures, json_output_filename, json_output_directory) ==
    LET dir_ == JsonOutputDirectory(json_output_filename, json_output_directory)
        path == JsonOutputPath(json_output_filename, json_output_directory)
        made == fs_dirs \cup {dir_}
    IN  IF /\ json_output_directory = None
           /\ json_output_filename # None
           /\ ~isdir(fs_dirs, dir_)
        THEN ExportOutcome("returned", "none", fs_dirs, fs_files, 0, FALSE)
        ELSE IF ~isdir(fs_dirs, dir_) /\ mkdir_raises(fs_dirs, fs_files, dir_) # "none"
        THEN ExportOutcome("raised", mkdir_raises(fs_dirs, fs_files, dir_),
                           fs_dirs, fs_files, 0, FALSE)
        ELSE LET dirs == IF isdir(fs_dirs, dir_) THEN fs_dirs ELSE made
             IN  IF isfile(fs_files, path)
                 THEN ExportOutcome("returned", "none", dirs, fs_files, 0, TRUE)
                 ELSE IF open_raises(dirs, path) # "none"
                 THEN ExportOutcome("raised", open_raises(dirs, path),
                                    dirs, fs_files, 1, FALSE)
                 ELSE ExportOutcome("returned", "none", dirs,
                                    WriteFile(fs_files, path, figures), 1, FALSE)

\* The figures self._augmented_figure_generator(predictions) yields: the
\* figures of the data set, each with its predictions.
AugmentedFigures(merged) == [kind |-> "figures", of |-> merged]

\* The figures of a figure generator that carries only the ground truth.
GtFigures == AugmentedFigures(EmptyDict)

\* The arguments the model calls export_figures_to_json with.
DirectoryArgs == {None, Path(FALSE, <<"out">>), Path(FALSE, <<"new", "out">>)}

FilenameArgs ==
    {None, Path(FALSE, <<"x.json">>), Path(FALSE, <<"out", "x.json">>),
     Path(TRUE, <<"out", "x.json">>)}

\* The directories and files that may exist when the call is made.
DirectoryUniverse ==
    {Path(FALSE, <<"out">>), Path(FALSE, <<"out", "out">>), Path(TRUE, <<"out">>),
     Path(FALSE, <<"new">>), Path(FALSE, <<"new", "out">>), DefaultDirectory}

FileUniverse ==
    {JsonOutputPath(f, d) : f \in FilenameArgs, d \in DirectoryArgs}

FileSystems ==
    {fs \in [dirs : {D \cup {PROJECT_DIR} : D \in SUBSET DirectoryUniverse},
             files : UNION {[F -> {"old"}] : F \in SUBSET FileUniverse}] :
        /\ \A d \in fs.dirs : ~ParentMissing(fs.dirs, d)
        /\ \A f \in DOMAIN fs.files :
              /\ ~ParentMissing(fs.dirs, f)
              /\ f \notin fs.dirs
        /\ Cardinality(DOMAIN fs.files) <= MaxFiles}

InitExport ==
    /\ \E fs \in FileSystems :
          /\ fs_dirs = fs.dirs
          /\ fs_files = fs.files
    /\ xcall = [caller |-> "none"]
    /\ EvaluatorConstructed
    /\ evaluation_function \in {"None", "fn"}
    /\ export \in BOOLEAN
    /\ InferIdle
    /\ CoreIdle
    /\ DetectronIdle
    /\ CsvIdle
    /\ ProviderIdle
    /\ MatchIdle
    /\ SplitIdle

\* What is kept of a call: its arguments, the file system it found and the
\* way it ended.
CallRecord(caller, figures, filename, directory, exported, r, returned) ==
    [caller |-> caller, figures |-> figures, filename |-> filename,
     directory |-> directory, exported |-> exported,
     pre_dirs |-> fs_dirs, pre_files |-> fs_files,
     outcome |-> r.outcome, exception |-> r.exception,
     traversals |-> r.traversals, warned |-> r.warned, retval |-> returned]

\* A call of export_figures_to_json by a script.
ExportFiguresToJson(json_output_filename, json_output_directory) ==
    /\ xcall.caller = "none"
    /\ LET r == export_figures_to_json(GtFigures, json_output_filename,
                                       json_output_directory)
       IN  /\ fs_dirs' = r.dirs
           /\ fs_files' = r.files
           /\ xcall' = CallRecord("script", GtFigures, json_output_filename,
                                  json_output_directory, TRUE, r,
                                  IF r.outcome = "returned" THEN None ELSE NoCall)
    /\ UNCHANGED <<labelVars, coreVars, evalVars, detVars, csvVars, providerVars, matchVars, splitVars>>

NothingExported ==
    ExportOutcome("returned", "none", fs_dirs, fs_files, 0, FALSE)

\* evaluate() on the main process from line 163 on, with the predictions
\* it has merged: the metrics, the export into self.export_dir, the return
\* of {task_name: metrics_dict}; an exception of the export leaves
\* evaluate().
EvaluateExport(merged, export_dir) ==
    /\ xcall.caller = "none"
    /\ LET r == IF ExportInvoked
                THEN export_figures_to_json(AugmentedFigures(merged), None, export_dir)
                ELSE NothingExported
       IN  /\ fs_dirs' = r.dirs
           /\ fs_files' = r.files
           /\ xcall' = CallRecord("evaluate", AugmentedFigures(merged), None,
                                  export_dir, ExportInvoked, r,
                                  IF r.outcome = "returned"
                                  THEN [kind |-> "dict", key |-> task_name,
                                        value |-> MetricsDict(merged)]
                                  ELSE NoCall)
    /\ UNCHANGED <<labelVars, coreVars, evalVars, detVars, csvVars, providerVars, matchVars, splitVars>>

NextExport ==
    \/ \E f \in FilenameArgs, d \in DirectoryArgs : ExportFiguresToJson(f, d)
    \/ \E merged \in Dicts, d \in DirectoryArgs : EvaluateExport(merged, d)

SpecExport == InitExport /\ [][NextExport]_vars

-----------------------------------------------------------------------------
(* export_figures_to_detectron_dict (compfigsep/data/export.py).           *)
(*                                                                         *)
(* A figure is its gt_subfigures (annotated FALSE when it is None); of a   *)
(* sub-figure the function reads whether the panel is None and whether     *)
(* the label is None ("None"), has no box ("nobox"), has no text           *)
(* ("notext"), has a text of one character ("one") or a longer text        *)
(* ("long").                                                               *)

MaxFigures == 2

SubFigures == [panel : {"None", "box"},
               label : {"None", "nobox", "notext", "one", "long"}]

LabelledPanel == [panel |-> "box", label |-> "one"]

DetFigure(annotated, gt_subfigures) ==
    [annotated |-> annotated, gt_subfigures |-> gt_subfigures]

DetFigures ==
    {DetFigure(FALSE, << >>), DetFigure(TRUE, << >>)}
        \cup {DetFigure(TRUE, <<s>>) : s \in SubFigures}
        \cup {DetFigure(TRUE, <<s, LabelledPanel>>) : s \in SubFigures}

TaskArgs ==
    {"panel_splitting", "label_recog", "panel_seg", "panel_segmentation",
     "label_recognition"}

\* Line 170: task in ['panel_splitting', 'label_recog', 'panel_seg'].
TaskAccepted_Any(t) == TRUE

TaskAccepted(t) == t \in {"panel_splitting", "label_recog", "panel_seg"}

\* Lines 210-213 and 235-238: the label has a box and a text of length 1.
ValidLabel_AnyText(subfigure) == subfigure.label \in {"one", "long"}

ValidLabel(subfigure) == subfigure.label = "one"

\* Lines 192-246: whether the sub-figure gives an annotation for the task.
Annotated(t, subfigure) ==
    IF t = "label_recog" THEN ValidLabel(subfigure) ELSE subfigure.panel # "None"

\* Lines 197-242: obj.
Obj(t, subfigure) ==
    IF t = "panel_splitting"
    THEN [bbox |-> "panel.box", bbox_mode |-> "XYXY_ABS", category_id |-> "0"]
    ELSE IF t = "label_recog"
    THEN [bbox |-> "label.box", bbox_mode |-> "XYXY_ABS",
          category_id |-> "LABEL_CLASS"]
    ELSE IF ValidLabel(subfigure)
    THEN [panel_bbox |-> "panel.box", bbox_mode |-> "XYXY_ABS",
          label_bbox |-> "label.box", label |-> "LABEL_CLASS"]
    ELSE [panel_bbox |-> "panel.box", bbox_mode |-> "XYXY_ABS"]

\* Lines 189-244: objs, from the i-th sub-figure on.
RECURSIVE Objs(_, _, _)
Objs(t, gt_subfigures, i) ==
    IF i > Len(gt_subfigures) THEN << >>
    ELSE IF Annotated(t, gt_subfigures[i])
    THEN <<Obj(t, gt_subfigures[i])>> \o Objs(t, gt_subfigures, i + 1)
    ELSE Objs(t, gt_subfigures, i + 1)

\* Lines 181-246: record; it has 'annotations' only for a figure whose
\* gt_subfigures is not None.
Record(t, index, fig) ==
    IF fig.annotated
    THEN [image_id |-> index, annotations |-> Objs(t, fig.gt_subfigures, 1)]
    ELSE [image_id |-> index]

RECURSIVE FigureLists(_)
FigureLists(n) ==
    IF n = 0 THEN {<< >>}
    ELSE FigureLists(n - 1)
            \cup {Append(l, f) : l \in {m \in FigureLists(n - 1) : Len(m) = n - 1},
                                 f \in DetFigures}

InitDetectron ==
    /\ task \in TaskArgs
    /\ det_figures \in FigureLists(MaxFigures)
    /\ dpc = "idle"
    /\ generator_calls = 0
    /\ requested = 0
    /\ dataset_dicts = << >>
    /\ InferIdle
    /\ CoreIdle
    /\ EvalIdle
    /\ ExportIdle
    /\ CsvIdle
    /\ ProviderIdle
    /\ MatchIdle
    /\ SplitIdle

\* Lines 170-178: the test of the task, then the call figure_generator().
DetectronCall ==
    /\ dpc = "idle"
    /\ IF TaskAccepted(task)
       THEN /\ dpc' = "loop"
            /\ generator_calls' = generator_calls + 1
       ELSE /\ dpc' = "raised"
            /\ UNCHANGED generator_calls
    /\ UNCHANGED <<task, det_figures, requested, dataset_dicts>>
    /\ UNCHANGED <<labelVars, coreVars, evalVars, exportVars, csvVars, providerVars, matchVars, splitVars>>

\* Lines 178-248: one figure is taken from the generator and its record
\* is appended.
DetectronFigure ==
    /\ dpc = "loop"
    /\ requested < Len(det_figures)
    /\ requested' = requested + 1
    /\ dataset_dicts' =
          Append(dataset_dicts, Record(task, requested, det_figures[requested + 1]))
    /\ UNCHANGED <<task, det_figures, dpc, generator_calls>>
    /\ UNCHANGED <<labelVars, coreVars, evalVars, exportVars, csvVars, providerVars, matchVars, splitVars>>

\* Line 250: the generator is exhausted, dataset_dicts is returned.
DetectronReturn ==
    /\ dpc = "loop"
    /\ requested = Len(det_figures)
    /\ dpc' = "returned"
    /\ UNCHANGED <<task, det_figures, generator_calls, requested, dataset_dicts>>
    /\ UNCHANGED <<labelVars, coreVars, evalVars, exportVars, csvVars, providerVars, matchVars, splitVars>>

NextDetectron == DetectronCall \/ DetectronFigure \/ DetectronReturn

SpecDetectron == InitDetectron /\ [][NextDetectron]_vars

-----------------------------------------------------------------------------
(* GlobalCsvFigureGenerator.__call__                                       *)
(* (compfigsep/data/figure_generators/global_csv_figure_generator.py).     *)
(*                                                                         *)
(* A row is its image path row[0] (a str, a sequence of characters) and    *)
(* its shape: "panel" (6 fields), "label" (11 fields), "nolabel" (11       *)
(* fields, the label box is not made of integers), "length" (another       *)
(* number of fields), "coordinates" (the panel box is not made of          *)
(* integers), "class" (row[5] is not 'panel').  Python lists and Figures   *)
(* are objects: the model keeps them in lists and figure_objs and the      *)
(* locals hold their indices, so that two names of one list share it.      *)

MaxRows == 3

ImagePaths == {<<"a">>, <<"b">>, <<"a", "b">>}

RowShapes == {"panel", "label", "nolabel", "length", "coordinates", "class"}

Rows == [image : ImagePaths, shape : RowShapes]

RECURSIVE RowLists(_)
RowLists(n) ==
    IF n = 0 THEN {<< >>}
    ELSE RowLists(n - 1)
            \cup {Append(l, r) : l \in {m \in RowLists(n - 1) : Len(m) = n - 1},
                                 r \in Rows}

\* str.endswith
endswith(str_, suffix) ==
    /\ Len(suffix) <= Len(str_)
    /\ SubSeq(str_, Len(str_) - Len(suffix) + 1, Len(str_)) = suffix

\* Lines 91-104: the image file is there and loads ("ok"), is there but
\* load_image() raises FileNotFoundError ("unreadable"), or is not there,
\* under 'data/' neither ("missing").
ImageStates == {"ok", "unreadable", "missing"}

\* Lines 111-127: what the fields of the row raise, "none" for a row that
\* gives a sub-figure.
RowRaises(row) ==
    IF row.shape = "length" THEN "ValueError"
    ELSE IF row.shape = "coordinates" THEN "ValueError"
    ELSE IF row.shape = "class" THEN "AssertionError"
    ELSE "none"

\* Lines 111-133: the SubFigure of a row; its label is None unless the row
\* has a label made of a text and four integers.
SubFigure(i, row) == [row |-> i, image |-> row.image, label |-> row.shape = "label"]

\* Line 97: Figure(image_path=image_path, index=image_counter).
NewFigure(path, index, loaded) ==
    [image_path |-> path, index |-> index, loaded |-> loaded, gt_subfigures |-> 0]

\* Lines 85-86 and 136-138: figure.gt_subfigures = subfigures; yield
\* figure.  What is kept of the yield is the figure and the elements its
\* list had at that moment.
SetSubfigures(objs, fig, list_) == [objs EXCEPT ![fig].gt_subfigures = list_]

Yield(ys, fig, elements) == Append(ys, [figure |-> fig, gt_subfigures |-> elements])

InitCsv ==
    /\ csv_rows \in RowLists(MaxRows)
    /\ gpc = "idle"
    /\ row_i = 0
    /\ image_path = << >>
    /\ figure = 0
    /\ figure_objs = << >>
    /\ subfigures = 0
    /\ lists = << >>
    /\ yielded = << >>
    /\ image_counter = 0
    /\ logged = 0
    /\ InferIdle
    /\ CoreIdle
    /\ EvalIdle
    /\ ExportIdle
    /\ DetectronIdle
    /\ ProviderIdle
    /\ MatchIdle
    /\ SplitIdle

\* Lines 71-78: the generator starts; subfigures = [] is a new list.
CsvStart ==
    /\ gpc = "idle"
    /\ gpc' = "rows"
    /\ lists' = Append(lists, << >>)
    /\ subfigures' = Len(lists) + 1
    /\ image_path' = << >>
    /\ figure' = 0
    /\ image_counter' = 0
    /\ UNCHANGED <<csv_rows, row_i, figure_objs, yielded, logged>>
    /\ UNCHANGED <<labelVars, coreVars, evalVars, exportVars, detVars, providerVars, matchVars, splitVars>>

\* Lines 111-133 for the row: it raises, or its SubFigure is appended to
\* the list the local subfigures names.
CsvParse(row, list_, lists_) ==
    IF RowRaises(row) # "none"
    THEN /\ gpc' = RowRaises(row)
         /\ lists' = lists_
    ELSE /\ gpc' = "rows"
         /\ lists' = [lists_ EXCEPT ![list_] = Append(@, SubFigure(row_i + 1, row))]

\* Lines 80-133: one turn of the loop over the rows.
CsvRow ==
    /\ gpc = "rows"
    /\ row_i < Len(csv_rows)
    /\ row_i' = row_i + 1
    /\ LET row == csv_rows[row_i + 1]
       IN  IF endswith(image_path, row.image)
           THEN \* a row of the figure in hand
                /\ CsvParse(row, subfigures, lists)
                /\ UNCHANGED <<image_path, figure, figure_objs, subfigures,
                               yielded, image_counter, logged>>
           ELSE \* lines 84-88: the figure in hand is yielded
                /\ yielded' =
                      IF figure # 0 THEN Yield(yielded, figure, lists[subfigures])
                      ELSE yielded
                /\ image_counter' =
                      IF figure # 0 THEN image_counter + 1 ELSE image_counter
                /\ image_path' = row.image
                /\ LET objs == IF figure # 0
                               THEN SetSubfigures(figure_objs, figure, subfigures)
                               ELSE figure_objs
                   IN  \E image \in ImageStates :
                         IF image = "missing"
                         THEN \* lines 93-95
                              /\ gpc' = "FileNotFoundError"
                              /\ figure_objs' = objs
                              /\ UNCHANGED <<figure, subfigures, lists, logged>>
                         ELSE /\ figure_objs' =
                                    Append(objs, NewFigure(row.image, image_counter',
                                                           image = "ok"))
                              /\ figure' = Len(objs) + 1
                              /\ IF image = "unreadable"
                                 THEN \* lines 102-104
                                      /\ logged' = logged + 1
                                      /\ gpc' = "rows"
                                      /\ UNCHANGED <<subfigures, lists>>
                                 ELSE \* line 107, then the row itself
                                      /\ subfigures' = Len(lists) + 1
                                      /\ CsvParse(row, Len(lists) + 1,
                                                  Append(lists, << >>))
                                      /\ UNCHANGED logged
    /\ UNCHANGED csv_rows
    /\ UNCHANGED <<labelVars, coreVars, evalVars, exportVars, detVars, providerVars, matchVars, splitVars>>

\* Lines 135-138: after the last row the figure in hand is yielded; with
\* figure = None line 136 raises AttributeError.
CsvEnd ==
    /\ gpc = "rows"
    /\ row_i = Len(csv_rows)
    /\ IF figure = 0
       THEN /\ gpc' = "AttributeError"
            /\ UNCHANGED <<figure_objs, yielded>>
       ELSE /\ gpc' = "done"
            /\ figure_objs' = SetSubfigures(figure_objs, figure, subfigures)
            /\ yielded' = Yield(yielded, figure, lists[subfigures])
    /\ UNCHANGED <<csv_rows, row_i, image_path, figure, subfigures, lists,
                   image_counter, logged>>
    /\ UNCHANGED <<labelVars, coreVars, evalVars, exportVars, detVars, providerVars, matchVars, splitVars>>

NextCsv == CsvStart \/ CsvRow \/ CsvEnd

SpecCsv == InitCsv /\ [][NextCsv]_vars

-----------------------------------------------------------------------------
(* The figure provider of a data set: register_panel_splitting_dataset     *)
(* (panel_seg/panel_splitting/load_datasets.py) puts the generator object  *)
(* made by one call of IphotodrawXmlFigureGenerator.__call__               *)
(* (panel_seg/data/figure_generators/iphotodraw_xml_figure_generator.py)   *)
(* into the metadata, the evaluator keeps it as self._figure_generator     *)
(* and iterates over it once per pass over the figures.                    *)

MaxImages == 3
MaxPasses == 2

\* self.image_paths, each with whether load_image() succeeds on it.
RECURSIVE ImageLoadLists(_)
ImageLoadLists(n) ==
    IF n = 0 THEN {<< >>}
    ELSE ImageLoadLists(n - 1)
            \cup {Append(l, b) : l \in {m \in ImageLoadLists(n - 1) : Len(m) = n - 1},
                                 b \in BOOLEAN}

InitProvider ==
    /\ image_loads \in ImageLoadLists(MaxImages)
    /\ fg_state = "none"
    /\ fg_next = 0
    /\ fg_logged = 0
    /\ tpc = "idle"
    /\ traversal = << >>
    /\ passes = << >>
    /\ InferIdle
    /\ CoreIdle
    /\ EvalIdle
    /\ ExportIdle
    /\ DetectronIdle
    /\ CsvIdle
    /\ MatchIdle
    /\ SplitIdle

\* load_datasets.py line 73, evaluator.py line 55: figure_generator() is
\* called once and the generator object it returns, which has not run
\* yet, is what the metadata and the evaluator keep.
RegisterDataset ==
    /\ fg_state = "none"
    /\ fg_state' = "created"
    /\ fg_next' = 0
    /\ UNCHANGED <<image_loads, fg_logged, tpc, traversal, passes>>
    /\ UNCHANGED <<labelVars, coreVars, evalVars, exportVars, detVars, csvVars, matchVars, splitVars>>

\* A pass of the evaluator over the figures begins: for figure in
\* self._figure_generator.
TraverseStart ==
    /\ fg_state # "none"
    /\ tpc = "idle"
    /\ Len(passes) < MaxPasses
    /\ tpc' = "iterating"
    /\ traversal' = << >>
    /\ UNCHANGED <<image_loads, fg_state, fg_next, fg_logged, passes>>
    /\ UNCHANGED <<labelVars, coreVars, evalVars, exportVars, detVars, csvVars, matchVars, splitVars>>

\* IphotodrawXmlFigureGenerator.__call__, lines 102-125: one turn of the
\* loop of the generator object; the figure is yielded if its image loads
\* and skipped with an error log if not.
GeneratorTurn ==
    /\ tpc = "iterating"
    /\ fg_state # "exhausted"
    /\ fg_next < Len(image_loads)
    /\ fg_state' = "suspended"
    /\ fg_next' = fg_next + 1
    /\ IF image_loads[fg_next + 1]
       THEN /\ traversal' = Append(traversal, fg_next)
            /\ UNCHANGED fg_logged
       ELSE /\ fg_logged' = fg_logged + 1
            /\ UNCHANGED traversal
    /\ UNCHANGED <<image_loads, tpc, passes>>
    /\ UNCHANGED <<labelVars, coreVars, evalVars, exportVars, detVars, csvVars, matchVars, splitVars>>

\* The loop of line 102 is over, or the generator object was exhausted
\* before: StopIteration ends the pass.
GeneratorStop ==
    /\ tpc = "iterating"
    /\ fg_state = "exhausted" \/ fg_next = Len(image_loads)
    /\ fg_state' = "exhausted"
    /\ tpc' = "idle"
    /\ passes' = Append(passes, traversal)
    /\ UNCHANGED <<image_loads, fg_next, fg_logged, traversal>>
    /\ UNCHANGED <<labelVars, coreVars, evalVars, exportVars, detVars, csvVars, matchVars, splitVars>>

NextProvider == RegisterDataset \/ TraverseStart \/ GeneratorTurn \/ GeneratorStop

SpecProvider == InitProvider /\ [][NextProvider]_vars

-----------------------------------------------------------------------------
(* The panel-splitting matching of one figure (Matcher / Scorer):          *)
(* predictions in descending confidence, each matched to the unmatched     *)
(* ground-truth panel of highest IoU if that IoU reaches the threshold.    *)

MaxPanels == 2
MaxDetections == 2

\* Confidence scores: a low and a high one.
Scores == {1, 2}

\* Boxes [x1, y1, x2, y2]: a full panel, its lower and upper parts, which
\* both cover 0.6 of it and 0.2 of each other, and a panel elsewhere.
Boxes ==
    {<<0, 0, 10, 10>>, <<0, 0, 10, 6>>, <<0, 4, 10, 10>>, <<20, 20, 30, 30>>}

Max2(a, b) == IF a >= b THEN a ELSE b

Min2(a, b) == IF a <= b THEN a ELSE b

Area(b) == (b[3] - b[1]) * (b[4] - b[2])

IntersectionArea(a, b) ==
    LET w == Min2(a[3], b[3]) - Max2(a[1], b[1])
        h == Min2(a[4], b[4]) - Max2(a[2], b[2])
    IN  IF w > 0 /\ h > 0 THEN w * h ELSE 0

UnionArea(a, b) == Area(a) + Area(b) - IntersectionArea(a, b)

\* IoU(a, b) >= 0.5, the standard threshold.
MeetsThreshold(a, b) == 2 * IntersectionArea(a, b) >= UnionArea(a, b)

\* IoU(p, a) >= IoU(p, b)
IouAtLeast(p, a, b) ==
    IntersectionArea(p, a) * UnionArea(p, b)
        >= IntersectionArea(p, b) * UnionArea(p, a)

RECURSIVE BoxLists(_)
BoxLists(n) ==
    IF n = 0 THEN {<< >>}
    ELSE BoxLists(n - 1)
            \cup {Append(l, b) : l \in {m \in BoxLists(n - 1) : Len(m) = n - 1},
                                 b \in Boxes}

Detections == [box : Boxes, score : Scores]

RECURSIVE DetectionLists(_)
DetectionLists(n) ==
    IF n = 0 THEN {<< >>}
    ELSE DetectionLists(n - 1)
            \cup {Append(l, d) : l \in {m \in DetectionLists(n - 1) : Len(m) = n - 1},
                                 d \in Detections}

InitMatch ==
    /\ gt_panels \in BoxLists(MaxPanels)
    /\ detections \in DetectionLists(MaxDetections)
    /\ mpc = "idle"
    /\ processed = {}
    /\ pairs = {}
    /\ counts = [tp |-> 0, fp |-> 0, fn |-> 0]
    /\ InferIdle
    /\ CoreIdle
    /\ EvalIdle
    /\ ExportIdle
    /\ DetectronIdle
    /\ CsvIdle
    /\ ProviderIdle
    /\ SplitIdle

\* The ground-truth panels no prediction has been matched to.
Unmatched_Any(matched) == 1..Len(gt_panels)
Unmatched(matched) == {g \in 1..Len(gt_panels) : \A pr \in matched : pr[2] # g}

\* The ground-truth panels prediction p can be matched to.
Candidates(p, matched) ==
    {g \in Unmatched(matched) : MeetsThreshold(detections[p].box, gt_panels[g])}

\* The candidates of highest IoU with prediction p.
Best(p, matched) ==
    {g \in Candidates(p, matched) :
        \A h \in Candidates(p, matched) :
            IouAtLeast(detections[p].box, gt_panels[g], gt_panels[h])}

\* The predictions still to take that have the highest confidence.
NextDetections ==
    {p \in 1..Len(detections) \ processed :
        \A q \in 1..Len(detections) \ processed :
            detections[p].score >= detections[q].score}

MatchStart ==
    /\ mpc = "idle"
    /\ mpc' = "matching"
    /\ UNCHANGED <<gt_panels, detections, processed, pairs, counts>>
    /\ UNCHANGED <<labelVars, coreVars, evalVars, exportVars, detVars, csvVars,
                   providerVars, splitVars>>

\* One prediction is taken: a true positive if it is matched, a false
\* positive if not.
MatchDetection ==
    /\ mpc = "matching"
    /\ \E p \in NextDetections :
         /\ processed' = processed \cup {p}
         /\ IF Best(p, pairs) # {}
            THEN \E g \in Best(p, pairs) :
                   /\ pairs' = pairs \cup {<<p, g>>}
                   /\ counts' = [counts EXCEPT !.tp = @ + 1]
            ELSE /\ counts' = [counts EXCEPT !.fp = @ + 1]
                 /\ UNCHANGED pairs
    /\ UNCHANGED <<gt_panels, detections, mpc>>
    /\ UNCHANGED <<labelVars, coreVars, evalVars, exportVars, detVars, csvVars,
                   providerVars, splitVars>>

\* All predictions were taken: the ground-truth panels left unmatched are
\* the false negatives.
MatchFinish ==
    /\ mpc = "matching"
    /\ processed = 1..Len(detections)
    /\ mpc' = "done"
    /\ counts' = [counts EXCEPT !.fn = Cardinality(Unmatched(pairs))]
    /\ UNCHANGED <<gt_panels, detections, processed, pairs>>
    /\ UNCHANGED <<labelVars, coreVars, evalVars, exportVars, detVars, csvVars,
                   providerVars, splitVars>>

NextMatch == MatchStart \/ MatchDetection \/ MatchFinish

SpecMatch == InitMatch /\ [][NextMatch]_vars

-----------------------------------------------------------------------------
(* _train_val_splitter (panel_seg/panel_split/model/                       *)
(* load_panel_split_datasets.py): _get_dicts_train and _get_dicts_val each *)
(* make one generator, over the same figures of the training set.          *)

MaxSplitFigures == 6

InitSplit ==
    /\ num_figures \in 0..MaxSplitFigures
    /\ spc = [is_train \in BOOLEAN |-> "none"]
    /\ split_index = [is_train \in BOOLEAN |-> 0]
    /\ split_yielded = [is_train \in BOOLEAN |-> << >>]
    /\ InferIdle
    /\ CoreIdle
    /\ EvalIdle
    /\ ExportIdle
    /\ DetectronIdle
    /\ CsvIdle
    /\ ProviderIdle
    /\ MatchIdle

\* Python's truth value of an int.
Truthy(n) == n # 0

\* Lines 31-35: whether the figure of this index is yielded.  "is_train
\* and index % 5" is False or the remainder; the elif is tried only when
\* the first condition is false.
SplitterYields(is_train, index) ==
    LET cond == is_train /\ Truthy(index % 5)
    IN  IF cond THEN TRUE
        ELSE IF ~cond THEN TRUE
        ELSE FALSE

\* Lines 26-28, 41-60: _get_dicts_train calls _train_val_splitter(),
\* _get_dicts_val calls _train_val_splitter(is_train=False).
SplitterCall(is_train) ==
    /\ spc[is_train] = "none"
    /\ spc' = [spc EXCEPT ![is_train] = "running"]
    /\ split_index' = [split_index EXCEPT ![is_train] = 0]
    /\ UNCHANGED <<num_figures, split_yielded>>
    /\ UNCHANGED <<labelVars, coreVars, evalVars, exportVars, detVars, csvVars,
                   providerVars, matchVars>>

\* Lines 30-35: one turn of the loop over the enumerated figures.
SplitterTurn(is_train) ==
    /\ spc[is_train] = "running"
    /\ split_index[is_train] < num_figures
    /\ split_index' = [split_index EXCEPT ![is_train] = @ + 1]
    /\ split_yielded' =
          IF SplitterYields(is_train, split_index[is_train])
          THEN [split_yielded EXCEPT ![is_train] = Append(@, split_index[is_train])]
          ELSE split_yielded
    /\ UNCHANGED <<num_figures, spc>>
    /\ UNCHANGED <<labelVars, coreVars, evalVars, exportVars, detVars, csvVars,
                   providerVars, matchVars>>

\* Line 30: the figures are exhausted.
SplitterEnd(is_train) ==
    /\ spc[is_train] = "running"
    /\ split_index[is_train] = num_figures
    /\ spc' = [spc EXCEPT ![is_train] = "done"]
    /\ UNCHANGED <<num_figures, split_index, split_yielded>>
    /\ UNCHANGED <<labelVars, coreVars, evalVars, exportVars, detVars, csvVars,
                   providerVars, matchVars>>

NextSplit ==
    \E is_train \in BOOLEAN :
        SplitterCall(is_train) \/ SplitterTurn(is_train) \/ SplitterEnd(is_train)

SpecSplit == InitSplit /\ [][NextSplit]_vars

-----------------------------------------------------------------------------
(* Claims about from_labels_list, checked under SpecInfer.                 *)

EnumPos(s) == CHOOSE i \in 1..Len(LabelStructureEnum) : LabelStructureEnum[i] = s

\* C1: when not every label is the placeholder, the returned scheme has the
\* highest vote count and, among the schemes sharing that count, is the
\* first in declaration order; from_labels_list(["A","1"]) is NUMERICAL.
Thm_C1_FirstMaxWins ==
    (ipc = "done" /\ ~AllPlaceholders(labels_list)) =>
        /\ \A s \in Schemes :
              similarity_list[s] <= similarity_list[result.labels_type]
        /\ \A s \in Schemes :
              similarity_list[s] = similarity_list[result.labels_type]
                  => EnumPos(result.labels_type) <= EnumPos(s)
        /\ (labels_list = << <<"A">>, <<"1">> >>
                => result.labels_type = "NUMERICAL")

Wit_C1_TieAOne ==
    /\ ipc = "done"
    /\ labels_list = << <<"A">>, <<"1">> >>
    /\ similarity_list["NUMERICAL"] = 1
    /\ similarity_list["LATIN_UC"] = 1
    /\ result.labels_type = "NUMERICAL"

\* The rule of claim C2, as a relation between a label and its bucket.
IsSingleLower(label) == Len(label) = 1 /\ label[1] \in LowerLetters
IsSingleUpper(label) == Len(label) = 1 /\ label[1] \in UpperLetters
ParsesAsInt(label) == int(label) = "ok"

FirstMatch(label, b) ==
    /\ (b = "LATIN_LC") <=> IsSingleLower(label)
    /\ (b = "LATIN_UC") <=> (~IsSingleLower(label) /\ IsSingleUpper(label))
    /\ (b = "NUMERICAL") <=>
          (~IsSingleLower(label) /\ ~IsSingleUpper(label) /\ ParsesAsInt(label))
    /\ (b = "ROMAN_LC") <=>
          (/\ ~IsSingleLower(label) /\ ~IsSingleUpper(label)
           /\ ~ParsesAsInt(label) /\ label \in LC_ROMAN_TO_INT)
    /\ (b = "ROMAN_UC") <=>
          (/\ ~IsSingleLower(label) /\ ~IsSingleUpper(label)
           /\ ~ParsesAsInt(label) /\ label \notin LC_ROMAN_TO_INT
           /\ label \in UC_ROMAN_TO_INT)
    /\ (b = "OTHER") <=>
          (/\ ~IsSingleLower(label) /\ ~IsSingleUpper(label)
           /\ ~ParsesAsInt(label) /\ label \notin LC_ROMAN_TO_INT
           /\ label \notin UC_ROMAN_TO_INT)
    /\ b # "NONE"

\* C2: every label the loop consumes adds exactly one vote, to the bucket of
\* the first matching rule (single lowercase letter, single uppercase
\* letter, integer, lowercase roman, uppercase roman, other); a
\* one-character label such as "I" or "v" never votes ROMAN_UC / ROMAN_LC.
Thm_C2_FirstMatchingRule ==
    [][(ipc = "loop" /\ idx < Len(labels_list)) =>
          /\ idx' = idx + 1
          /\ \E b \in Schemes :
                /\ similarity_list' = [similarity_list EXCEPT ![b] = @ + 1]
                /\ FirstMatch(labels_list[idx + 1], b)
                /\ Len(labels_list[idx + 1]) = 1 => b \notin {"ROMAN_UC", "ROMAN_LC"}
                /\ labels_list[idx + 1] = <<"I">> => b = "LATIN_UC"
                /\ labels_list[idx + 1] = <<"v">> => b = "LATIN_LC"]_vars

Wit_C2_SingleRomanLetters ==
    /\ ipc = "done"
    /\ labels_list = << <<"I">>, <<"v">>, <<"I", "I">> >>
    /\ similarity_list["LATIN_UC"] = 1
    /\ similarity_list["LATIN_LC"] = 1
    /\ similarity_list["ROMAN_UC"] = 1

\* C3: a non-empty list of placeholders only yields (NONE, len(labels_list))
\* with no vote cast and no warning logged.
Thm_C3_AllPlaceholders ==
    (/\ ipc = "done"
     /\ Len(labels_list) > 0
     /\ \A i \in 1..Len(labels_list) : labels_list[i] = <<"_">>) =>
        /\ result = LabelStructure("NONE", Len(labels_list))
        /\ similarity_list = << >>
        /\ idx = 0
        /\ warnings = 0

Wit_C3_ThreePlaceholders ==
    /\ ipc = "done"
    /\ labels_list = << <<"_">>, <<"_">>, <<"_">> >>
    /\ result = LabelStructure("NONE", 3)

\* C4: from_labels_list never raises on a list of strings (a label that is
\* no letter, no integer and no roman numeral votes OTHER), and the count
\* it returns is len(labels_list).
Thm_C4_TotalAndCount ==
    /\ ipc # "raised"
    /\ ipc = "done" =>
          /\ result.labels_type \in Schemes
          /\ result.num_labels = Len(labels_list)

Wit_C4_UnparseableIsOther ==
    /\ ipc = "done"
    /\ labels_list = << <<"?">>, <<"a", "b">>, <<"1">> >>
    /\ result = LabelStructure("OTHER", 3)
    /\ warnings = 2

-----------------------------------------------------------------------------
(* Claims about get_core_label_list, checked under SpecCore.               *)

\* C5: for every scheme and every count >= 0 the returned list has exactly
\* count elements, also for the roman schemes beyond the size of the roman
\* table and for the latin schemes beyond 26.
Orig_C5_LengthIsCount ==
    cpc = "done" => Len(output_list) = num_labels

\* The letters of the alphabet, written out.
Alphabet ==
    <<"A", "B", "C", "D", "E", "F", "G", "H", "I", "J", "K", "L", "M",
      "N", "O", "P", "Q", "R", "S", "T", "U", "V", "W", "X", "Y", "Z">>

\* The number a sequence of decimal digits denotes.
RECURSIVE DecimalValue(_)
DecimalValue(ds) ==
    IF Len(ds) = 0 THEN 0
    ELSE 10 * DecimalValue(SubSeq(ds, 1, Len(ds) - 1))
         + (CHOOSE d \in 0..9 : Digit[d + 1] = ds[Len(ds)])

IsDecimalOf(ds, i) ==
    /\ Len(ds) >= 1
    /\ \A k \in 1..Len(ds) : ds[k] \in Digits
    /\ Len(ds) > 1 => ds[1] # "0"
    /\ DecimalValue(ds) = i

\* C6: position i (from 0) of the returned list holds the decimal string of
\* i for NUMERICAL, the (i+1)-th letter in upper / lower case for
\* LATIN_UC / LATIN_LC (count <= 26), entry i of the upper / lower roman
\* table for ROMAN_UC / ROMAN_LC, and the placeholder for NONE and OTHER.
Thm_C6_ElementAtPosition ==
    cpc = "done" =>
        \A i \in 0..(Len(output_list) - 1) :
            LET e == output_list[i + 1]
            IN  /\ labels_type = "NUMERICAL" => IsDecimalOf(e, i)
                /\ (labels_type = "LATIN_UC" /\ num_labels <= Len(Alphabet))
                      => e = <<Alphabet[i + 1]>>
                /\ (labels_type = "LATIN_LC" /\ num_labels <= Len(Alphabet))
                      => e = <<lower(Alphabet[i + 1])>>
                /\ labels_type = "ROMAN_UC" => e = UC_ROMAN[i + 1]
                /\ labels_type = "ROMAN_LC" => e = LC_ROMAN[i + 1]
                /\ labels_type \in {"NONE", "OTHER"} => e = <<"_">>

Wit_C6_NumericalThree ==
    /\ cpc = "done"
    /\ labels_type = "NUMERICAL"
    /\ num_labels = 3
    /\ output_list = << <<"0">>, <<"1">>, <<"2">> >>

-----------------------------------------------------------------------------
(* Claims about evaluate(), checked under Spec.                            *)

\* C7: the dict merged on the coordinator has as keys the union of the keys
\* of the gathered dicts of all workers, and under each key the entry of
\* the highest rank that has the key (later ranks overwrite earlier ones).
Thm_C7_LastWriterWins ==
    epc[0] = "merged" =>
        LET all == all_predictions[0]
            merged == predictions[0]
        IN  /\ Len(all) = NumWorkers
            /\ DOMAIN merged = UNION {DOMAIN all[i] : i \in 1..Len(all)}
            /\ \A k \in DOMAIN merged :
                  LET hi == CHOOSE i \in 1..Len(all) :
                                /\ k \in DOMAIN all[i]
                                /\ \A j \in (i + 1)..Len(all) : k \notin DOMAIN all[j]
                  IN  /\ merged[k] = all[hi][k]
                      /\ merged[k] = hi - 1

Wit_C7_SharedKeyOverwritten ==
    /\ epc[0] = "merged"
    /\ "img1" \in DOMAIN all_predictions[0][1]
    /\ "img1" \in DOMAIN all_predictions[0][NumWorkers]
    /\ "img2" \in DOMAIN all_predictions[0][1]
    /\ "img2" \notin DOMAIN all_predictions[0][NumWorkers]
    /\ predictions[0] = [k \in ImageIds |-> IF k = "img1" THEN NumWorkers - 1 ELSE 0]

\* C8: a worker that is not the coordinator returns None from evaluate()
\* and never merges, never calls the evaluation function and never
\* exports; the coordinator does, and returns the metrics mapping.
Thm_C8_OnlyCoordinatorWorks ==
    /\ \A w \in Ranks \ {0} :
          /\ calls[w] = NoCalls
          /\ predictions[w] = EmptyDict
          /\ epc[w] # "merged"
          /\ retval[w] \in {NoCall, None}
          /\ (epc[w] = "returned") => (retval[w] = None)
    /\ (epc[0] = "returned") =>
          /\ retval[0].kind = "dict"
          /\ calls[0].merge = round[0]

Wit_C8_WorkerReturnedNone ==
    /\ epc[0] = "returned"
    /\ retval[0].kind = "dict"
    /\ calls[0].merge = 1
    /\ \E w \in Ranks \ {0} :
          /\ epc[w] = "returned"
          /\ round[w] = 1
          /\ retval[w] = None

\* The number of gathers a worker has come out of.
PastGather(w) == IF epc[w] = "gather" THEN round[w] - 1 ELSE round[w]

InEvaluate(w) == epc[w] \in {"gather", "gathered", "merged"}

\* C9: no worker comes out of the gather of its r-th evaluate() (so none
\* returns, and the coordinator does not merge) before every worker has
\* entered its r-th evaluate(); what the coordinator gets holds one dict
\* per worker, that worker's accumulator.
Thm_C9_GatherIsBarrier ==
    /\ \A w \in Ranks : \A v \in Ranks : PastGather(w) <= round[v]
    /\ (epc[0] \in {"gathered", "merged"}) =>
          /\ Len(all_predictions[0]) = NumWorkers
          /\ \A v \in Ranks :
                (round[v] = round[0] /\ InEvaluate(v))
                    => all_predictions[0][v + 1] = self_predictions[v]

Wit_C9_CoordinatorReleased ==
    /\ epc[0] = "gathered"
    /\ \E v \in Ranks \ {0} :
          /\ epc[v] = "gather"
          /\ round[v] = round[0]
          /\ self_predictions[v] # EmptyDict
          /\ all_predictions[0][v + 1] = self_predictions[v]

\* C10 as claimed: once evaluate() has returned, the worker's accumulator
\* is empty, as after reset().
Orig_C10_EvaluateClears ==
    \A w \in Ranks : (epc[w] = "returned") => (self_predictions[w] = EmptyDict)

\* C10 as amended: no step of evaluate(), from the call to the return,
\* changes the worker's accumulator: after evaluate() it holds what it held
\* at the call, and only reset() empties it.
Thm_C10_EvaluateKeepsAccumulator ==
    [][\A w \in Ranks :
          (InEvaluate(w) \/ InEvaluate(w)')
              => self_predictions'[w] = self_predictions[w]]_vars

Wit_C10_ReturnedNotEmpty ==
    \E w \in Ranks :
        /\ epc[w] = "returned"
        /\ round[w] = MaxRounds
        /\ self_predictions[w] = [k \in ImageIds |-> w]

\* A step that takes worker w into its "reset" position: a call of reset().
ResetStep(w) == epc[w] # "reset" /\ epc'[w] = "reset"

\* C11: reset() leaves the worker's accumulator empty whatever it held, a
\* second reset() right after it changes nothing, and a reset() changes
\* nothing of the evaluator but that accumulator.
Thm_C11_ResetEmptiesOnly ==
    [][\A w \in Ranks :
          (epc'[w] = "reset") =>
              /\ self_predictions'[w] = EmptyDict
              /\ ResetStep(w) =>
                    /\ \A v \in Ranks \ {w} :
                          /\ self_predictions'[v] = self_predictions[v]
                          /\ epc'[v] = epc[v]
                    /\ UNCHANGED <<evaluation_function, export, round,
                                   gather_data, all_predictions, predictions,
                                   retval, calls>>]_vars

Wit_C11_ResetAfterEvaluate ==
    /\ epc[0] = "reset"
    /\ round[0] = 1
    /\ self_predictions[0] = EmptyDict
    /\ all_predictions[0] = << >>
    /\ predictions[0] = [k \in ImageIds |-> 0]
    /\ retval[0].kind = "dict"
    /\ \E w \in Ranks \ {0} : self_predictions[w] = EmptyDict /\ epc[w] = "returned"

\* C12: what the coordinator merges in one evaluate() is built from the
\* dicts gathered in that call alone: every entry of the merged dict is an
\* entry of one of them, and nothing merged by an earlier evaluate() is
\* left in it.
Thm_C12_MergedRebuilt ==
    epc[0] = "merged" =>
        \A k \in DOMAIN predictions[0] :
            \E i \in 1..Len(all_predictions[0]) :
                /\ k \in DOMAIN all_predictions[0][i]
                /\ predictions[0][k] = all_predictions[0][i][k]

Wit_C12_SecondMergeSmaller ==
    /\ epc[0] = "merged"
    /\ round[0] = 2
    /\ retval[0].kind = "dict"
    /\ retval[0].value.kind = "metrics"
    /\ retval[0].value.of = [k \in ImageIds |-> NumWorkers - 1]
    /\ predictions[0] = [k \in {"img1"} |-> 0]

\* C13: on the coordinator evaluate() returns a mapping with the one key
\* task_name; its value is the metrics the evaluation function computes
\* from the predictions merged in this call, or None when no evaluation
\* function is configured, and the function is called once per evaluate().
Thm_C13_ReturnsMetricsMapping ==
    epc[0] = "returned" =>
        /\ retval[0].kind = "dict"
        /\ retval[0].key = task_name
        /\ retval[0].value =
              IF evaluation_function = "None"
              THEN None
              ELSE [kind |-> "metrics", of |-> predictions[0]]
        /\ calls[0].evaluation =
              IF evaluation_function = "None" THEN 0 ELSE round[0]

Wit_C13_MetricsOfMerged ==
    /\ epc[0] = "returned"
    /\ round[0] = 2
    /\ evaluation_function = "fn"
    /\ predictions[0] = [k \in ImageIds |-> IF k = "img1" THEN 0 ELSE NumWorkers - 1]
    /\ retval[0] = [kind |-> "dict", key |-> "panel_splitting",
                    value |-> [kind |-> "metrics", of |-> predictions[0]]]

\* The evaluate() calls the coordinator has returned from.
Completed(w) == IF InEvaluate(w) THEN round[w] - 1 ELSE round[w]

\* C14: with the export flag set the coordinator invokes the export once
\* in every evaluate(), with or without an evaluation function; without
\* the flag it never does.
Thm_C14_ExportOncePerEvaluate ==
    calls[0].export = IF export THEN Completed(0) ELSE 0

Wit_C14_ExportWithoutMetrics ==
    /\ epc[0] = "returned"
    /\ round[0] = 2
    /\ export
    /\ evaluation_function = "None"
    /\ retval[0].value = None
    /\ calls[0].export = 2
    /\ calls[0].evaluation = 0

\* Worker w calls evaluate() right after reset().
EvaluateAfterReset(w) == epc[w] = "reset" /\ epc'[w] = "gather"

\* Every dict the coordinator got from the gather is empty.
GatheredNothing ==
    \A i \in 1..Len(all_predictions[0]) : all_predictions[0][i] = EmptyDict

-----------------------------------------------------------------------------
(* Claims about export_figures_to_json, checked under SpecExport.          *)

Exported == xcall.caller # "none" /\ xcall.exported

\* The file the call was to write, and whether it was there at the call.
TargetPath == JsonOutputPath(xcall.filename, xcall.directory)

Collision == Exported /\ TargetPath \in DOMAIN xcall.pre_files

\* What evaluate() returns on the main process: {task_name: metrics_dict}.
MetricsMapping ==
    [kind |-> "dict", key |-> task_name,
     value |-> IF evaluation_function = "None"
               THEN None
               ELSE [kind |-> "metrics", of |-> xcall.figures.of]]

DirectoryUsable ==
    \/ xcall.directory = None
    \/ xcall.directory \in xcall.pre_dirs
    \/ Len(xcall.directory.parts) = 1
    \/ dirname(xcall.directory) \in xcall.pre_dirs

TargetDirectory ==
    IF xcall.directory = None THEN DefaultDirectory ELSE xcall.directory

FileSystemUntouched == fs_dirs = xcall.pre_dirs /\ fs_files = xcall.pre_files

-----------------------------------------------------------------------------
(* Claims about export_figures_to_detectron_dict, checked under            *)
(* SpecDetectron.                                                          *)

\* C18: called with a task that is none of 'panel_splitting', 'label_recog'
\* and 'panel_seg', export_figures_to_detectron_dict raises at once: the
\* figure generator is not called, no figure is taken from it and no
\* record is built.
Thm_C18_UnknownTaskRaisesFirst ==
    (dpc # "idle" /\ task \notin {"panel_splitting", "label_recog", "panel_seg"}) =>
        /\ dpc = "raised"
        /\ generator_calls = 0
        /\ requested = 0
        /\ dataset_dicts = << >>

Wit_C18_RaisedWithFiguresWaiting ==
    /\ dpc = "raised"
    /\ task = "panel_segmentation"
    /\ Len(det_figures) = 2
    /\ det_figures[1] = DetFigure(TRUE, <<LabelledPanel>>)
    /\ generator_calls = 0
    /\ dataset_dicts = << >>

-----------------------------------------------------------------------------
(* Claims about the figure generators, checked under SpecCsv and           *)
(* SpecProvider.                                                           *)

\* C19 as claimed, for GlobalCsvFigureGenerator: a figure whose image did
\* not load is never yielded, and once the generator is done every figure
\* that loaded has been yielded.
Orig_C19_UnloadedFigureSkipped ==
    /\ \A i \in 1..Len(yielded) : figure_objs[yielded[i].figure].loaded
    /\ (gpc = "done") =>
          \A f \in 1..Len(figure_objs) :
              figure_objs[f].loaded => \E i \in 1..Len(yielded) : yielded[i].figure = f

\* The indices of the images that load, in the order of self.image_paths.
RECURSIVE LoadableFrom(_)
LoadableFrom(i) ==
    IF i > Len(image_loads) THEN << >>
    ELSE IF image_loads[i] THEN <<i - 1>> \o LoadableFrom(i + 1)
    ELSE LoadableFrom(i + 1)

\* C20 as claimed: every pass over the registered figure provider gets the
\* same complete sequence, the figures of all the images that load.
Orig_C20_EveryPassComplete ==
    \A i \in 1..Len(passes) : passes[i] = LoadableFrom(1)

-----------------------------------------------------------------------------
(* Claims about the panel-splitting matching, checked under SpecMatch.     *)

\* The predictions matched to ground-truth panel g.
MatchedTo(g) == {pr \in pairs : pr[2] = g}

\* C21: every ground-truth panel is matched to at most one prediction,
\* every match reaches the IoU threshold, a prediction is never matched
\* while one of higher confidence that could take the same panel is still
\* to come, and once the matching is over true positives + false positives
\* = number of predictions and true positives + false negatives = number
\* of ground-truth panels; with one ground-truth panel and two predictions
\* that both reach the threshold there is one true positive, the
\* higher-confidence prediction, and one false positive.
Thm_C21_AtMostOneMatchPerGroundTruth ==
    /\ \A g \in 1..Len(gt_panels) : Cardinality(MatchedTo(g)) <= 1
    /\ \A pr \in pairs : MeetsThreshold(detections[pr[1]].box, gt_panels[pr[2]])
    /\ \A p \in processed : \A q \in 1..Len(detections) \ processed :
          detections[p].score >= detections[q].score
    /\ counts.tp = Cardinality(pairs)
    /\ mpc = "done" =>
          /\ counts.tp + counts.fp = Len(detections)
          /\ counts.tp + counts.fn = Len(gt_panels)
          /\ (/\ Len(gt_panels) = 1
              /\ Len(detections) = 2
              /\ \A p \in 1..2 : MeetsThreshold(detections[p].box, gt_panels[1]))
             => /\ counts.tp = 1
                /\ counts.fp = 1
                /\ \A pr \in pairs : \A q \in 1..2 :
                      detections[pr[1]].score >= detections[q].score

Wit_C21_SecondPredictionFalsePositive ==
    /\ mpc = "done"
    /\ Len(gt_panels) = 1
    /\ Len(detections) = 2
    /\ detections[1].score < detections[2].score
    /\ detections[1].box # detections[2].box
    /\ \A p \in 1..2 : MeetsThreshold(detections[p].box, gt_panels[1])
    /\ pairs = {<<2, 1>>}
    /\ counts = [tp |-> 1, fp |-> 1, fn |-> 0]

-----------------------------------------------------------------------------
(* Claims about _train_val_splitter, checked under SpecSplit.              *)

\* The figures a generator has yielded, as a set.
YieldedSet(is_train) ==
    {split_yielded[is_train][i] : i \in 1..Len(split_yielded[is_train])}

\* C28 as claimed: no figure is yielded by both splits, and once both
\* generators are exhausted every figure was yielded by one of them.
Orig_C28_SplitsDisjoint ==
    /\ YieldedSet(TRUE) \cap YieldedSet(FALSE) = {}
    /\ (spc[TRUE] = "done" /\ spc[FALSE] = "done")
          => YieldedSet(TRUE) \cup YieldedSet(FALSE) = 0..(num_figures - 1)

-----------------------------------------------------------------------------
(* Claims about the label data of export_figures_to_detectron_dict,        *)
(* checked under SpecDetectron.                                            *)

\* The label is there, with a box and a text of exactly one character.
OneCharacterLabel(subfigure) == subfigure.label = "one"

HasPanel(subfigure) == subfigure.panel # "None"

CarriesLabel(obj) == "label" \in DOMAIN obj /\ "label_bbox" \in DOMAIN obj

CarriesNoLabel(obj) == "label" \notin DOMAIN obj /\ "label_bbox" \notin DOMAIN obj

\* The records built from figures that have ground-truth sub-figures.
AnnotatedRecords ==
    {k \in 1..Len(dataset_dicts) : det_figures[k].annotated}

\* C22 as claimed: for label recognition the annotations of a figure are
\* those of its one-character labels and no others; for panel segmentation
\* every one-character label gives an annotation with 'label' and
\* 'label_bbox', and no other annotation has them.
Orig_C22_OneCharacterLabelAlwaysExported ==
    \A k \in AnnotatedRecords :
        LET subs == det_figures[k].gt_subfigures
            anns == dataset_dicts[k].annotations
        IN  /\ task = "label_recog" =>
                 Len(anns) = Len(SelectSeq(subs, OneCharacterLabel))
            /\ task = "panel_seg" =>
                 /\ Len(SelectSeq(anns, CarriesLabel))
                       = Len(SelectSeq(subs, OneCharacterLabel))
                 /\ \A j \in 1..Len(anns) : CarriesLabel(anns[j]) \/ CarriesNoLabel(anns[j])

\* C22, amended: for label recognition the annotations of a figure are
\* those of its one-character labels, in order, and no others; for panel
\* segmentation the annotations are those of the sub-figures that have a
\* panel, in order, and the annotation of such a sub-figure has 'label'
\* and 'label_bbox' if its label has a box and a one-character text and
\* has neither of them if not; a sub-figure without a panel gives no
\* annotation, whatever its label.
Thm_C22_LabelDataOnlyFromOneCharacterLabels ==
    \A k \in AnnotatedRecords :
        LET subs == det_figures[k].gt_subfigures
            anns == dataset_dicts[k].annotations
            withPanel == SelectSeq(subs, HasPanel)
        IN  /\ task = "label_recog" =>
                 /\ Len(anns) = Len(SelectSeq(subs, OneCharacterLabel))
                 /\ \A j \in 1..Len(anns) : anns[j].bbox = "label.box"
            /\ task = "panel_seg" =>
                 /\ Len(anns) = Len(withPanel)
                 /\ \A j \in 1..Len(anns) :
                       IF OneCharacterLabel(withPanel[j])
                       THEN CarriesLabel(anns[j])
                       ELSE CarriesNoLabel(anns[j])

Wit_C22_LongLabelLeftOut ==
    /\ dpc = "returned"
    /\ task = "panel_seg"
    /\ Len(dataset_dicts) >= 1
    /\ det_figures[1] = DetFigure(TRUE, <<[panel |-> "box", label |-> "long"],
                                         LabelledPanel>>)
    /\ Len(dataset_dicts[1].annotations) = 2
    /\ CarriesNoLabel(dataset_dicts[1].annotations[1])
    /\ CarriesLabel(dataset_dicts[1].annotations[2])

-----------------------------------------------------------------------------
(* Claims about particular label sequences, checked under SpecInfer.       *)

InferredFrom(labels) == ipc = "done" /\ labels_list = labels

\* C23 as claimed: for ["1", "2", "x"] the histogram has two NUMERICAL
\* votes and one OTHER vote, and the result is (NUMERICAL, 3).
Orig_C23_XVotesOther ==
    InferredFrom(<< <<"1">>, <<"2">>, <<"x">> >>) =>
        /\ similarity_list["NUMERICAL"] = 2
        /\ similarity_list["OTHER"] = 1
        /\ result = LabelStructure("NUMERICAL", 3)

\* C23, amended: for ["1", "2", "x"] the histogram has two NUMERICAL votes
\* and one LATIN_LC vote, the one of "x", a single lowercase letter; no
\* label is unclassified, no warning is logged, and the result is
\* (NUMERICAL, 3): the majority scheme wins.
Thm_C23_MajorityNumerical ==
    InferredFrom(<< <<"1">>, <<"2">>, <<"x">> >>) =>
        /\ similarity_list["NUMERICAL"] = 2
        /\ similarity_list["LATIN_LC"] = 1
        /\ similarity_list["OTHER"] = 0
        /\ warnings = 0
        /\ result = LabelStructure("NUMERICAL", 3)

Wit_C23_OneTwoX ==
    /\ InferredFrom(<< <<"1">>, <<"2">>, <<"x">> >>)
    /\ result = LabelStructure("NUMERICAL", 3)

\* C24: ["i", "ii", "iii"] is classified (ROMAN_LC, 3); its token "i", a
\* single character, votes LATIN_LC, the two others vote ROMAN_LC.
Thm_C24_RomanLowerThree ==
    InferredFrom(<< <<"i">>, <<"i", "i">>, <<"i", "i", "i">> >>) =>
        /\ result = LabelStructure("ROMAN_LC", 3)
        /\ similarity_list["LATIN_LC"] = 1
        /\ similarity_list["ROMAN_LC"] = 2

Wit_C24_RomanDespiteLetter ==
    /\ InferredFrom(<< <<"i">>, <<"i", "i">>, <<"i", "i", "i">> >>)
    /\ result.labels_type = "ROMAN_LC"
    /\ similarity_list["LATIN_LC"] > 0

\* The number of placeholders in the list.
Placeholders == {i \in 1..Len(labels_list) : labels_list[i] = <<"_">>}

\* C26: the NONE bucket never receives a vote, and for a non-empty list
\* the result is NONE if and only if every label is the placeholder; in a
\* list that has other labels too, every placeholder has voted OTHER.
Thm_C26_NoneOnlyForPlaceholders ==
    /\ similarity_list # << >> => similarity_list["NONE"] = 0
    /\ (ipc = "done" /\ Len(labels_list) >= 1) =>
          /\ result.labels_type = "NONE"
                <=> Cardinality(Placeholders) = Len(labels_list)
          /\ Cardinality(Placeholders) < Len(labels_list)
                => similarity_list["OTHER"] >= Cardinality(Placeholders)

Wit_C26_MixedPlaceholdersOther ==
    /\ ipc = "done"
    /\ labels_list = << <<"_">>, <<"_">>, <<"a">> >>
    /\ result = LabelStructure("OTHER", 3)

-----------------------------------------------------------------------------
(* The round trip, checked under SpecRoundTrip.                            *)

RoundTripDone == cpc = "done" /\ ipc = "done"

Ordinal == {"NUMERICAL", "LATIN_UC", "LATIN_LC", "ROMAN_UC", "ROMAN_LC"}

\* The counts within the scheme's vocabulary.
InVocabulary ==
    /\ num_labels >= 1
    /\ labels_type \in {"LATIN_UC", "LATIN_LC"} => num_labels <= 26
    /\ labels_type \in {"ROMAN_UC", "ROMAN_LC"} => num_labels <= Len(UC_ROMAN)

\* C25 as claimed: for the five ordinal schemes and every count within
\* the vocabulary, the structure inferred from the canonical sequence is
\* the structure the sequence was made from.
Orig_C25_RoundTripExact ==
    (RoundTripDone /\ labels_type \in Ordinal /\ InVocabulary) =>
        result = LabelStructure(labels_type, num_labels)

\* The latin scheme of the case of a roman scheme.
LatinOf(type) == IF type = "ROMAN_UC" THEN "LATIN_UC" ELSE "LATIN_LC"

\* C25, amended: the round trip is exact for NUMERICAL, LATIN_UC and
\* LATIN_LC at every count within the vocabulary and for ROMAN_UC and
\* ROMAN_LC at every count from 3 to the size of the table; the canonical
\* roman sequences of one and of two labels come back as the latin scheme
\* of the same case, with the same count, because their single-character
\* numeral votes latin and a tie goes to the scheme declared first.
Thm_C25_RoundTripButShortRoman ==
    (RoundTripDone /\ labels_type \in Ordinal /\ InVocabulary) =>
        IF labels_type \in {"ROMAN_UC", "ROMAN_LC"} /\ num_labels <= 2
        THEN result = LabelStructure(LatinOf(labels_type), num_labels)
        ELSE result = LabelStructure(labels_type, num_labels)

Wit_C25_RomanTwelveBack ==
    /\ RoundTripDone
    /\ labels_type = "ROMAN_LC"
    /\ num_labels = Len(LC_ROMAN)
    /\ result = LabelStructure("ROMAN_LC", Len(LC_ROMAN))

-----------------------------------------------------------------------------
(* Claims about the sub-figure lists and the termination of                *)
(* GlobalCsvFigureGenerator, checked under SpecCsv.                        *)

\* The list a yielded figure carries now.
ListOf(fig) == lists[figure_objs[fig].gt_subfigures]

\* C27 as claimed: the sub-figures of every yielded figure come from rows
\* that name the figure's image, and the list of a figure is, at any later
\* time, the list it was yielded with.
Orig_C27_RowsStayWithTheirFigure ==
    \A i \in 1..Len(yielded) :
        LET fig == yielded[i].figure
        IN  /\ \A j \in 1..Len(ListOf(fig)) :
                  ListOf(fig)[j].image = figure_objs[fig].image_path
            /\ ListOf(fig) = yielded[i].gt_subfigures

\* Every row gives a sub-figure: 6 or 11 fields, integer coordinates,
\* class 'panel'.
WellFormed ==
    \A i \in 1..Len(csv_rows) : csv_rows[i].shape \in {"panel", "label", "nolabel"}

\* The number of runs of consecutive rows that name the same image.
Runs ==
    Cardinality({i \in 1..Len(csv_rows) :
                    i = 1 \/ csv_rows[i].image # csv_rows[i - 1].image})

\* C29 as claimed: on a well-formed file, empty or not, the generator
\* raises nothing while it reads the rows and at the end of the file, and
\* when every image has loaded it has yielded one figure per run of rows
\* once it is done.
Orig_C29_EndsNormally ==
    WellFormed =>
        /\ gpc \notin {"AttributeError", "ValueError", "AssertionError"}
        /\ (gpc = "done" /\ logged = 0) => Len(yielded) = Runs

-----------------------------------------------------------------------------
(* The frame of export_figures_to_json, checked under SpecExport.          *)

\* The call wrote the file it was to write.
Written ==
    /\ TargetPath \in DOMAIN fs_files
    /\ TargetPath \notin DOMAIN xcall.pre_files
    /\ fs_files[TargetPath] = xcall.figures

\* The call returned without writing its file.
Skipped == Exported /\ xcall.outcome = "returned" /\ ~Written

\* C30 as claimed: a call that returns without writing its file (the file
\* exists, or the directory of the given file name is invalid) leaves the
\* directories and the files as they were and never calls the figure
\* generator; the generator is called exactly when the file is written,
\* and then once.
Orig_C30_SkipHasNoEffect ==
    /\ Skipped => (FileSystemUntouched /\ xcall.traversals = 0)
    /\ Exported => (xcall.traversals = 1 <=> Written)
    /\ Exported => xcall.traversals <= 1

====
